---------------------------- MODULE Spec2Model ----------------------------
(***************************************************************************)
(* A model of sdv-modpackinfo.py: the script that scans a Stardew Valley   *)
(* `Mods` directory for manifest.json files, sorts the mods by name, asks  *)
(* api.smapi.io for better metadata in one batched request, and writes a   *)
(* list of the mods with a download url each.                              *)
(*                                                                         *)
(* Strings whose inner structure the script looks at (versions, update     *)
(* keys, urls) are sequences of tokens, concatenation is \o.  A JSON       *)
(* object is a record with a field `keys`, the set of the keys it holds;   *)
(* the field of an absent key holds a filler that no definition reads.     *)
(* An uncaught Python exception ends the run: pc = "crashed", exc names it.*)
(***************************************************************************)
EXTENDS Integers, Sequences, FiniteSets, TLC

VARIABLES
  pc,             \* position in the script's top-level code
  exc,            \* the uncaught exception that ended the run, or "none"
  request_smapi,  \* the configuration switch of line 57
  stack,          \* the activation records of scan(), innermost last
  budget,         \* directory entries the tree still holds below the listed ones
  mods,           \* the global list `mods`
  seen,           \* descriptors read so far: [valid, invalid] (bookkeeping)
  stderr,         \* how often each diagnostic was printed to sys.stderr
  post_data,      \* the "mods" list of the request body, line 165
  requests,       \* the bodies of the requests sent to api.smapi.io
  status,         \* res.status of the response, 0 before any response
  better_info,    \* the global `better_info`
  stat_better,    \* line 196
  stat_guessed,   \* line 197
  idx,            \* how many mods the output loop of line 247 has reported
  out             \* the lines printed to the output file

vars == <<pc, exc, request_smapi, stack, budget, mods, seen, stderr, post_data,
          requests, status, better_info, stat_better, stat_guessed, idx, out>>

---------------------------------------------------------------------------
(* Bounds of the model. *)

\* Directory entries in the whole tree below `Mods`.
MaxEntries == 3
\* Nested calls of scan(), the call on `Mods` included.
MaxDepth == 2
\* Largest number a field of a structured version holds.
MaxInt == 10

---------------------------------------------------------------------------
(* Strings. *)

Digits == <<"0", "1", "2", "3", "4", "5", "6", "7", "8", "9">>

\* str(n) of a non-negative int: its decimal digits.
RECURSIVE Str(_)
Str(n) == IF n < 10 THEN <<Digits[n + 1]>>
          ELSE Str(n \div 10) \o <<Digits[(n % 10) + 1]>>

\* Python's `tok in s` on a str s.
Contains(s, tok) == \E i \in 1..Len(s) : s[i] = tok

\* sep.join(parts)
RECURSIVE Join(_, _)
Join(sep, parts) ==
  IF parts = <<>> THEN <<>>
  ELSE IF Len(parts) = 1 THEN parts[1]
  ELSE parts[1] \o <<sep>> \o Join(sep, Tail(parts))

\* s.split(sep): the pieces of s between the occurrences of sep.
RECURSIVE Split(_, _)
Split(s, sep) ==
  IF ~Contains(s, sep) THEN <<s>>
  ELSE LET i == CHOOSE j \in 1..Len(s) :
                    s[j] = sep /\ \A k \in 1..(j - 1) : s[k] # sep
       IN <<SubSeq(s, 1, i - 1)>> \o Split(SubSeq(s, i + 1, Len(s)), sep)

---------------------------------------------------------------------------
(* The values of a manifest. *)

VersionFields == <<"MajorVersion", "MinorVersion", "PatchVersion", "Build">>

\* A field of a structured version: an int, or a str.
IntField(n) == [t |-> "int", n |-> n, s |-> <<>>]
StrField(s) == [t |-> "str", n |-> 0, s |-> s]
EmptyField == StrField(<<>>)

\* The value of "Version": a str, or an object with some of the keys.
StrVersion(s) == [kind |-> "str", s |-> s, has |-> {},
                  f |-> [k \in 1..4 |-> EmptyField]]
MapVersion(has, f) == [kind |-> "map", s |-> <<>>, has |-> has, f |-> f]
NoVersion == StrVersion(<<>>)

Has(info, key) == key \in info.keys

\* A decoded manifest.
Info(keys, name, version, id, updateKeys, author, description) ==
  [keys |-> keys, Name |-> name, Version |-> version, UniqueID |-> id,
   UpdateKeys |-> updateKeys, Author |-> author, Description |-> description]

NoInfo == Info({}, "", NoVersion, <<>>, <<>>, "", "")

\* An entry of a directory: its name starts with "." or not, it is a directory
\* or not, it holds a manifest.json or not, the manifest's text decodes to
\* `info` or json.loads raises.
Entry(hidden, isdir, manifest, ok, info) ==
  [hidden |-> hidden, isdir |-> isdir, manifest |-> manifest, ok |-> ok,
   info |-> info]

NoEntry == Entry(FALSE, FALSE, FALSE, FALSE, NoInfo)

---------------------------------------------------------------------------
(* Lines 116-125: the sanitization of "Version". *)

\* `not i is ""`
NotEmptyStr(v) == ~(v.t = "str" /\ v.s = <<>>)

\* str(i)
StrOf(v) == IF v.t = "int" THEN Str(v.n) ELSE v.s

\* "MajorVersion" in info["Version"]: a substring test on a str, a key test on
\* an object.
HasMajorVersion(version) ==
  IF version.kind = "str" THEN Contains(version.s, "MajorVersion")
  ELSE "MajorVersion" \in version.has

\* JoinVersion without the `if not i is ""`: the empty Build is joined too.
JoinVersionUnfiltered(version) ==
  Join(".", [i \in 1..4 |-> StrOf(version.f[i])])

\* ".".join([str(i) for i in version if not i is ""])
JoinVersion(version) ==
  LET kept == SelectSeq(version.f, NotEmptyStr)
  IN Join(".", [i \in 1..Len(kept) |-> StrOf(kept[i])])

\* Lines 117-125.  ok is FALSE when a line raises: info["Version"] (KeyError),
\* version["MajorVersion"] on a str (TypeError), version[k] of an absent key
\* (KeyError).
Sanitize(info) ==
  IF ~Has(info, "Version") THEN [ok |-> FALSE, info |-> info]
  ELSE IF ~HasMajorVersion(info.Version) THEN [ok |-> TRUE, info |-> info]
  ELSE IF info.Version.kind = "str" THEN [ok |-> FALSE, info |-> info]
  ELSE IF \E k \in 1..4 : VersionFields[k] \notin info.Version.has
       THEN [ok |-> FALSE, info |-> info]
  ELSE [ok |-> TRUE,
        info |-> [info EXCEPT !.Version = StrVersion(JoinVersion(info.Version))]]

\* Lines 108-132: the try block.  ok is FALSE when the except clause ran.
ParseManifest(e) ==
  IF ~e.ok THEN [ok |-> FALSE, info |-> NoInfo]
  ELSE Sanitize(e.info)

---------------------------------------------------------------------------
(* The inputs of the whole run. *)

Names == {"A", "B"}
Ids == {<<"a.mod">>, <<"b.mod">>}

FullVersion == MapVersion({"MajorVersion", "MinorVersion", "PatchVersion", "Build"},
                          <<IntField(1), IntField(0), IntField(0), EmptyField>>)
PartVersion == MapVersion({"MajorVersion", "MinorVersion", "PatchVersion"},
                          <<IntField(1), IntField(0), IntField(0), EmptyField>>)
V100 == <<"1", ".", "0", ".", "0">>
NexusKey == <<"Nexus", ":", "1">>

\* The manifests the scan meets.
Manifests ==
  { Info(kn \cup kv \cup ki \cup ku, n, v, i, u, "", "") :
      kn \in {{}, {"Name"}}, n \in Names,
      kv \in {{}, {"Version"}}, v \in {StrVersion(V100), FullVersion, PartVersion},
      ki \in {{}, {"UniqueID"}}, i \in {<<"a.mod">>},
      ku \in {{}, {"UpdateKeys"}}, u \in {<<NexusKey>>} }

\* A manifest holds each key's value only when it holds the key.
WellFormed(info) ==
  /\ ~Has(info, "Name") => info.Name = "A"
  /\ ~Has(info, "Version") => info.Version = StrVersion(V100)

Entries ==
  {Entry(TRUE, b, FALSE, FALSE, NoInfo) : b \in BOOLEAN}
  \cup {Entry(FALSE, FALSE, FALSE, FALSE, NoInfo)}
  \cup {Entry(FALSE, TRUE, FALSE, FALSE, NoInfo)}
  \cup {Entry(FALSE, TRUE, TRUE, FALSE, NoInfo)}
  \cup {Entry(FALSE, TRUE, TRUE, TRUE, m) : m \in {x \in Manifests : WellFormed(x)}}

---------------------------------------------------------------------------
(* Lines 93-140: scan. *)

Top == stack[Len(stack)]

\* An activation of scan(): `left` entries of os.listdir(basedir) are still to
\* come, `file` is the entry of the current iteration, `base` is len(mods) at
\* the call.
Frame(left, base) == [left |-> left, res |-> FALSE, file |-> NoEntry, base |-> base]

Bump(counter) == stderr' = [stderr EXCEPT ![counter] = @ + 1]

\* What the spec calls a valid descriptor: it decodes, its Version can be
\* normalized, it has the required Name.
ValidDescriptor(e) == ParseManifest(e).ok /\ Has(e.info, "Name")

SetTop(f) == [stack EXCEPT ![Len(stack)] = f]

\* One iteration of the loop of line 97 on entry e.
ScanStep(e) ==
  /\ pc = "scan" /\ stack # <<>> /\ Top.left > 0
  /\ LET f == [Top EXCEPT !.left = @ - 1, !.file = e] IN
     IF e.hidden THEN
       \* line 99
       /\ stack' = SetTop(f)
       /\ UNCHANGED <<pc, exc, budget, mods, seen, stderr>>
     ELSE IF ~e.isdir THEN
       \* lines 103-104 warn; no manifest.json exists below a non-directory, so
       \* line 134 calls scan(path), whose os.listdir raises.
       /\ Bump("notdir")
       /\ stack' = SetTop(f)
       /\ pc' = "crashed" /\ exc' = "NotADirectoryError"
       /\ UNCHANGED <<budget, mods, seen>>
     ELSE IF e.manifest THEN
       \* lines 108-132
       LET p == ParseManifest(e) IN
       /\ seen' = IF ValidDescriptor(e) THEN [seen EXCEPT !.valid = @ + 1]
                  ELSE [seen EXCEPT !.invalid = @ + 1]
       /\ IF p.ok
          THEN /\ mods' = Append(mods, p.info)
               /\ stack' = SetTop([f EXCEPT !.res = TRUE])
               /\ UNCHANGED stderr
          ELSE /\ Bump("parse")
               /\ stack' = SetTop(f)
               /\ UNCHANGED mods
       /\ UNCHANGED <<pc, exc, budget>>
     ELSE
       \* line 134: res2 = scan(path), the listing of path holds n entries
       /\ Len(stack) < MaxDepth
       /\ \E n \in 0..budget :
            /\ budget' = budget - n
            /\ stack' = Append(SetTop(f), Frame(n, Len(mods)))
       /\ UNCHANGED <<pc, exc, mods, seen, stderr>>
  /\ UNCHANGED <<request_smapi, post_data, requests, status, better_info,
                 stat_better, stat_guessed, idx, out>>

ScanEntryFrom(E) ==
  /\ pc = "scan" /\ stack # <<>> /\ Top.left > 0
  /\ \E e \in E : ScanStep(e)

ScanEntry == ScanEntryFrom(Entries)

\* ScanReturn without lines 135-136: the caller's res stays as it was.
ScanReturnNotPropagated ==
  /\ pc = "scan" /\ stack # <<>> /\ Top.left = 0
  /\ IF Len(stack) = 1
     THEN /\ stack' = <<>>
          /\ pc' = "sort"
          /\ UNCHANGED stderr
     ELSE /\ stack' = SubSeq(stack, 1, Len(stack) - 1)
          /\ IF Top.res THEN UNCHANGED stderr ELSE Bump("nomods")
          /\ UNCHANGED pc
  /\ UNCHANGED <<exc, request_smapi, budget, mods, seen, post_data, requests,
                 status, better_info, stat_better, stat_guessed, idx, out>>

\* Line 140 and, in the caller, lines 135-138; for the call of line 144 the
\* result is dropped.
ScanReturn ==
  /\ pc = "scan" /\ stack # <<>> /\ Top.left = 0
  /\ IF Len(stack) = 1
     THEN /\ stack' = <<>>
          /\ pc' = "sort"
          /\ UNCHANGED stderr
     ELSE LET res2 == Top.res
              rest == SubSeq(stack, 1, Len(stack) - 1)
          IN /\ stack' = [rest EXCEPT ![Len(rest)].res = @ \/ res2]
             /\ IF res2 THEN UNCHANGED stderr ELSE Bump("nomods")
             /\ UNCHANGED pc
  /\ UNCHANGED <<exc, request_smapi, budget, mods, seen, post_data, requests,
                 status, better_info, stat_better, stat_guessed, idx, out>>

---------------------------------------------------------------------------
(* Lines 145-146: the sort. *)

\* Code points of the names.
Ord == "A" :> 65 @@ "B" :> 66

\* list.sort is stable: x goes behind the elements whose key is not greater.
InsertByName(s, x) ==
  LET k == Cardinality({i \in 1..Len(s) : Ord[s[i].Name] <= Ord[x.Name]})
  IN SubSeq(s, 1, k) \o <<x>> \o SubSeq(s, k + 1, Len(s))

RECURSIVE SortByName(_)
SortByName(s) ==
  IF s = <<>> THEN <<>>
  ELSE InsertByName(SortByName(SubSeq(s, 1, Len(s) - 1)), s[Len(s)])

\* mods.sort(key=lambda x: x["Name"]): the key of a mod without "Name" raises
\* KeyError, which nothing catches.
Sort ==
  /\ pc = "sort"
  /\ IF \E i \in 1..Len(mods) : ~Has(mods[i], "Name")
     THEN /\ pc' = "crashed" /\ exc' = "KeyError"
          /\ UNCHANGED mods
     ELSE /\ mods' = SortByName(mods)
          /\ pc' = "build"
          /\ UNCHANGED exc
  /\ UNCHANGED <<request_smapi, stack, budget, seen, stderr, post_data, requests,
                 status, better_info, stat_better, stat_guessed, idx, out>>

---------------------------------------------------------------------------
(* Lines 149-168: mod_id and the request body. *)

HasColon(x) == Contains(x, ":")

\* The dict mod_id returns for a mod that has a "UniqueID"; "updateKeys" is
\* set only when a key with a ":" exists (lines 158-161).
mod_id(info) ==
  LET keys == IF Has(info, "UpdateKeys") THEN SelectSeq(info.UpdateKeys, HasColon)
              ELSE <<>>
  IN [id |-> info.UniqueID, hasKeys |-> keys # <<>>, updateKeys |-> keys]

\* Lines 165-168: [mod_id(x) for x in mods].  For the first mod without a
\* "UniqueID" line 155 prints the error and line 156 reads the local
\* fake_unique_id before any assignment to it: UnboundLocalError, uncaught,
\* before info["UniqueID"] is written.
BuildBatch ==
  /\ pc = "build"
  /\ IF \E i \in 1..Len(mods) : ~Has(mods[i], "UniqueID")
     THEN /\ stderr' = [stderr EXCEPT !["missingid"] = @ + 1]
          /\ pc' = "crashed" /\ exc' = "UnboundLocalError"
          /\ UNCHANGED post_data
     ELSE /\ post_data' = [i \in 1..Len(mods) |-> mod_id(mods[i])]
          /\ pc' = "request"
          /\ UNCHANGED <<exc, stderr>>
  /\ UNCHANGED <<request_smapi, stack, budget, mods, seen, requests, status,
                 better_info, stat_better, stat_guessed, idx, out>>

---------------------------------------------------------------------------
(* Lines 171-186: get_better_info. *)

\* The status line 178 expects.
HTTP_OK == 200

\* What urlopen can meet: no response at all (0), 200 OK, 204 No Content,
\* 404 Not Found, 500 Internal Server Error.
Statuses == {0, HTTP_OK, 204, 404, 500}

Channels == {"main", "optional", "unofficial"}
Channel(version, url) == [version |-> version, url |-> url]
NoChannel == Channel(<<>>, <<>>)

\* The "metadata" of an entry of the response.
Metadata(has, main, optional, unofficial) ==
  [has |-> has, main |-> main, optional |-> optional, unofficial |-> unofficial]

MainChannel == Channel(V100, <<"https://main/">>)

\* The bodies api.smapi.io answers with.
Responses ==
  {<<>>}
  \cup { <<[id |-> <<"a.mod">>, metadata |-> m]>> :
          m \in { Metadata({"main"}, MainChannel, NoChannel, NoChannel),
                  Metadata({"main", "optional"}, MainChannel,
                           Channel(V100, <<"https://optional/">>), NoChannel),
                  Metadata({"optional"}, NoChannel,
                           Channel(V100, <<"https://optional/">>), NoChannel) } }

\* Line 183: {x["id"]: x["metadata"] for x in body if "main" in x["metadata"]};
\* of two entries with one id the later one stays.
ParseResponse(body) ==
  LET kept == {i \in 1..Len(body) : "main" \in body[i].metadata.has}
      last(id) == CHOOSE i \in kept :
                    body[i].id = id /\ \A j \in kept : body[j].id = id => j <= i
  IN [id \in {body[i].id : i \in kept} |-> body[last(id)].metadata]

\* urlopen raises for a missing response (URLError) and for every status
\* outside 200..299 (HTTPError); for a status other than 200 inside that range
\* line 179 adds the int res.status to a str (TypeError) before it prints.
ResponseException(st) ==
  IF st = 0 THEN "URLError"
  ELSE IF st < 200 \/ st > 299 THEN "HTTPError"
  ELSE IF st # HTTP_OK THEN "TypeError"
  ELSE "none"

\* get_better_info without line 172: the switch is not looked at.
get_better_info_unconditional(st, body) ==
  /\ pc = "request"
  /\ requests' = Append(requests, post_data)
  /\ status' = st
  /\ IF ResponseException(st) # "none"
     THEN /\ pc' = "crashed" /\ exc' = ResponseException(st)
          /\ UNCHANGED better_info
     ELSE /\ better_info' = ParseResponse(body)
          /\ pc' = "write"
          /\ UNCHANGED exc
  /\ UNCHANGED <<request_smapi, stack, budget, mods, seen, stderr, post_data,
                 stat_better, stat_guessed, idx, out>>

get_better_info(st, body) ==
  /\ pc = "request"
  /\ IF ~request_smapi
     THEN /\ better_info' = <<>>
          /\ pc' = "write"
          /\ UNCHANGED <<exc, requests, status>>
     ELSE /\ requests' = Append(requests, post_data)
          /\ status' = st
          /\ IF ResponseException(st) # "none"
             THEN /\ pc' = "crashed" /\ exc' = ResponseException(st)
                  /\ UNCHANGED better_info
             ELSE /\ better_info' = ParseResponse(body)
                  /\ pc' = "write"
                  /\ UNCHANGED exc
  /\ UNCHANGED <<request_smapi, stack, budget, mods, seen, stderr, post_data,
                 stat_better, stat_guessed, idx, out>>

Request == \E st \in Statuses, body \in Responses : get_better_info(st, body)

---------------------------------------------------------------------------
(* Lines 189-230: default, check_version, guess_url. *)

\* default(info, key, value), for the two keys report() uses it on.
default(info, key, value) ==
  IF Has(info, key) THEN info
  ELSE IF key = "Author"
       THEN [info EXCEPT !.keys = @ \cup {key}, !.Author = value]
       ELSE [info EXCEPT !.keys = @ \cup {key}, !.Description = value]

\* check_version without the comparison of the versions.
check_version_any(better, kind, version) == kind \in better.has

\* check_version: a Version that is no str equals no channel's version.
check_version(better, kind, version) ==
  /\ kind \in better.has
  /\ version.kind = "str"
  /\ version.s = better[kind].version

Url(s) == [none |-> FALSE, s |-> s]
None == [none |-> TRUE, s |-> <<>>]

NexusUrl(index) == Url(<<"https://www.nexusmods.com/stardewvalley/mods/">> \o index)

Resolved(url, better, guessed, diag) ==
  [url |-> url, better |-> better, guessed |-> guessed, diag |-> diag]

Key(found, key) == [found |-> found, key |-> key]

\* The first update key that holds a ":", as mod_id selects them, instead of
\* the first one.
first_valid_key(info) ==
  LET keys == IF Has(info, "UpdateKeys") THEN SelectSeq(info.UpdateKeys, HasColon)
              ELSE <<>>
  IN IF keys = <<>> THEN Key(FALSE, <<>>) ELSE Key(TRUE, keys[1])

\* Lines 212-217: key = info["UpdateKeys"][0]; not found when the key is
\* absent (KeyError) or the list empty (IndexError).
first_key(info) ==
  IF ~Has(info, "UpdateKeys") \/ info.UpdateKeys = <<>> THEN Key(FALSE, <<>>)
  ELSE Key(TRUE, info.UpdateKeys[1])

\* guess_url(info): the url returned, the increments of stat_better and
\* stat_guessed, and the diagnostic printed.
guess_url(info) ==
  IF info.UniqueID \in DOMAIN better_info THEN
    LET better == better_info[info.UniqueID] IN
    IF check_version(better, "optional", info.Version)
      THEN Resolved(Url(better.optional.url), 1, 0, "none")
    ELSE IF check_version(better, "unofficial", info.Version)
      THEN Resolved(Url(better.unofficial.url), 1, 0, "none")
    ELSE Resolved(Url(better.main.url), 1, 0, "none")
  ELSE IF ~first_key(info).found
    THEN Resolved(None, 0, 0, "keymissing")
  ELSE LET key == first_key(info).key
           parts == Split(key, ":")
       IN IF Len(parts) # 2 THEN Resolved(None, 0, 0, "keyinvalid")
          ELSE IF parts[1] = <<"Nexus">>
                 THEN Resolved(NexusUrl(parts[2]), 0, 1, "none")
          ELSE Resolved(None, 0, 0, "keyunrecognized")

---------------------------------------------------------------------------
(* Lines 232-253: report and the output loop. *)

Line(tmpl, url, info) == [tmpl |-> tmpl, url |-> url, info |-> info]

\* Lines 245-246: the file is opened and the prefix printed.
OpenOutput ==
  /\ pc = "write"
  /\ out' = <<Line("prefix", <<>>, NoInfo)>>
  /\ pc' = "report"
  /\ UNCHANGED <<exc, request_smapi, stack, budget, mods, seen, stderr, post_data,
                 requests, status, better_info, stat_better, stat_guessed, idx>>

\* report(info, f_out) on the next mod of the loop of line 247.  `if url:`
\* is false for None and for the empty str.
Report ==
  /\ pc = "report" /\ idx < Len(mods)
  /\ LET info == default(default(mods[idx + 1], "Author", "(unknown)"),
                         "Description", "-")
         r == guess_url(info)
     IN /\ mods' = [mods EXCEPT ![idx + 1] = info]
        /\ stat_better' = stat_better + r.better
        /\ stat_guessed' = stat_guessed + r.guessed
        /\ stderr' = IF r.diag = "none" THEN stderr
                     ELSE [stderr EXCEPT ![r.diag] = @ + 1]
        /\ out' = Append(out, IF ~r.url.none /\ r.url.s # <<>>
                              THEN Line("format_url", r.url.s, info)
                              ELSE Line("format_nourl", <<>>, info))
  /\ idx' = idx + 1
  /\ UNCHANGED <<pc, exc, request_smapi, stack, budget, seen, post_data, requests,
                 status, better_info>>

\* Lines 249-253: the suffix, the summary, die(0).
Finish ==
  /\ pc = "report" /\ idx = Len(mods)
  /\ out' = Append(out, Line("suffix", <<>>, NoInfo))
  /\ pc' = "done"
  /\ UNCHANGED <<exc, request_smapi, stack, budget, mods, seen, stderr, post_data,
                 requests, status, better_info, stat_better, stat_guessed, idx>>

---------------------------------------------------------------------------

NoDiagnostics ==
  [d \in {"notdir", "parse", "nomods", "missingid", "enrich", "keymissing",
          "keyinvalid", "keyunrecognized"} |-> 0]

Init ==
  /\ pc = "scan" /\ exc = "none"
  /\ request_smapi \in BOOLEAN
  /\ \E n \in 0..MaxEntries :
       /\ stack = <<Frame(n, 0)>>
       /\ budget = MaxEntries - n
  /\ mods = <<>>
  /\ seen = [valid |-> 0, invalid |-> 0]
  /\ stderr = NoDiagnostics
  /\ post_data = <<>> /\ requests = <<>> /\ status = 0
  /\ better_info = <<>>
  /\ stat_better = 0 /\ stat_guessed = 0
  /\ idx = 0 /\ out = <<>>

Next ==
  \/ ScanEntry
  \/ ScanReturn
  \/ Sort
  \/ BuildBatch
  \/ Request
  \/ OpenOutput
  \/ Report
  \/ Finish

Spec == Init /\ [][Next]_vars

---------------------------------------------------------------------------
(* The sanitization of one manifest's "Version", over every shape of it. *)

\* What a manifest holds under one of the four keys: nothing, an int, or the
\* empty str.
FieldOptions ==
  {[present |-> FALSE, v |-> EmptyField], [present |-> TRUE, v |-> EmptyField]}
  \cup {[present |-> TRUE, v |-> IntField(n)] : n \in 0..MaxInt}

\* The objects with any of the four keys; the field of an absent key is a filler.
MapVersions ==
  { MapVersion({VersionFields[k] : k \in {j \in 1..4 : o[j].present}},
               [k \in 1..4 |-> o[k].v]) :
      o \in [1..4 -> FieldOptions] }

StrVersions ==
  {StrVersion(s) : s \in {V100, <<"2", ".", "0">>, <<>>, <<"x", "MajorVersion">>}}

VersionEntries ==
  { Entry(FALSE, TRUE, TRUE, TRUE,
          Info({"Name", "Version", "UniqueID", "UpdateKeys"}, "A", v, <<"a.mod">>, <<NexusKey>>, "", "")) :
      v \in MapVersions \cup StrVersions }

ScanVersionEntry == ScanEntryFrom(VersionEntries)

\* scan() is about to read the one entry of `Mods`.
InitVersion ==
  /\ pc = "scan" /\ exc = "none"
  /\ request_smapi = TRUE
  /\ stack = <<Frame(1, 0)>>
  /\ budget = 0
  /\ mods = <<>>
  /\ seen = [valid |-> 0, invalid |-> 0]
  /\ stderr = NoDiagnostics
  /\ post_data = <<>> /\ requests = <<>> /\ status = 0
  /\ better_info = <<>>
  /\ stat_better = 0 /\ stat_guessed = 0
  /\ idx = 0 /\ out = <<>>

NextVersion == ScanVersionEntry

SpecVersion == InitVersion /\ [][NextVersion]_vars

---------------------------------------------------------------------------
(* report() on one mod, over the update keys and the remote metadata. *)

\* Update keys a manifest lists at most.
MaxKeys == 2

UpdateKeySamples ==
  { NexusKey, <<"Nexus", ":", "1", ":", "2">>, <<"Nexus", ":">>,
    <<"CurseForge", ":", "99">>, <<"x">> }

RECURSIVE SeqsUpTo(_, _)
SeqsUpTo(S, n) ==
  IF n = 0 THEN {<<>>}
  ELSE LET shorter == SeqsUpTo(S, n - 1)
       IN shorter \cup {Append(q, x) : q \in shorter, x \in S}

V20 == <<"2", ".", "0">>

\* The records that reach the output loop: sanitized, with Name and UniqueID.
ResolveInfos ==
  { Info({"Name", "Version", "UniqueID"} \cup ku \cup ka, "A", v, i, u,
         IF ka = {} THEN "" ELSE "author", IF ka = {} THEN "" ELSE "description") :
      v \in {StrVersion(V100), StrVersion(V20), MapVersion({}, [k \in 1..4 |-> EmptyField])},
      i \in Ids,
      ku \in {{}, {"UpdateKeys"}},
      u \in SeqsUpTo(UpdateKeySamples, MaxKeys),
      ka \in {{}, {"Author", "Description"}} }

OtherChannels ==
  {NoChannel} \cup {Channel(v, <<"https://other/">>) : v \in {V100, V20}}

\* What line 183 keeps: metadata with a "main" channel.
BetterInfos ==
  {<<>>}
  \cup { [id \in {<<"a.mod">>} |->
            Metadata({"main"} \cup (IF o = NoChannel THEN {} ELSE {"optional"})
                              \cup (IF u = NoChannel THEN {} ELSE {"unofficial"}),
                     MainChannel,
                     o,
                     IF u = NoChannel THEN u ELSE [u EXCEPT !.url = <<"https://unofficial/">>])] :
          o \in OtherChannels, u \in OtherChannels }

\* The output file is open, the prefix printed, one mod to report.
InitResolve ==
  /\ pc = "report" /\ exc = "none"
  /\ request_smapi = TRUE
  /\ stack = <<>>
  /\ budget = 0
  /\ \E m \in {x \in ResolveInfos : Has(x, "UpdateKeys") \/ x.UpdateKeys = <<>>} :
       /\ mods = <<m>>
       /\ post_data = <<mod_id(m)>>
       /\ requests = <<post_data>>
  /\ seen = [valid |-> 1, invalid |-> 0]
  /\ stderr = NoDiagnostics
  /\ status = HTTP_OK
  /\ better_info \in BetterInfos
  /\ stat_better = 0 /\ stat_guessed = 0
  /\ idx = 0
  /\ out = <<Line("prefix", <<>>, NoInfo)>>

NextResolve == Report \/ Finish

SpecResolve == InitResolve /\ [][NextResolve]_vars

---------------------------------------------------------------------------
(* The properties. *)

Sorted(s) == \A i, j \in 1..Len(s) : i < j => Ord[s[i].Name] <= Ord[s[j].Name]

\* The sort of line 146 has returned.
AfterSort == pc \in {"build", "request", "write", "report", "done"}
             \/ (pc = "crashed" /\ exc \notin {"NotADirectoryError", "KeyError"})

\* C1: for a tree with N valid and M invalid descriptors, after scan and sort
\* mods has exactly N entries in ascending order of Name and M parse errors
\* were printed, and no descriptor makes the sort abort the run.
C1_ValidCollectedInvalidLogged ==
  /\ exc # "KeyError"
  /\ AfterSort => /\ Len(mods) = seen.valid
                  /\ Sorted(mods)
                  /\ stderr["parse"] = seen.invalid

\* C2: a non-hidden entry that is no directory is warned about and skipped:
\* scan() is never called on it, so its os.listdir never raises, and the run
\* goes on.
C2_NonDirectorySkipped ==
  stderr["notdir"] > 0 => exc # "NotADirectoryError"

\* C3: once the error about a missing UniqueID is printed, the mod holds the
\* synthetic id FAKE.<k> of the counter, starting at FAKE.0, and the run goes on.
C3_SyntheticIdentifier ==
  stderr["missingid"] > 0 =>
    /\ exc # "UnboundLocalError"
    /\ \E i \in 1..Len(mods) :
         Has(mods[i], "UniqueID") /\ mods[i].UniqueID = <<"FAKE.", "0">>

\* C4: after a response whose status is not 200 the warning was printed
\* exactly once, better_info is empty and the run has not been aborted.
C4_EnrichmentUnavailable ==
  (requests # <<>> /\ status \notin {0, HTTP_OK}) =>
    /\ pc # "crashed"
    /\ stderr["enrich"] = 1
    /\ DOMAIN better_info = {}

\* The one mod of SpecResolve has been reported.
Reported == idx = 1 /\ Len(out) >= 2

\* The url of the line report() printed for the mod (empty: no url).
PrintedUrl == out[2].url

KeyDiagnostics ==
  stderr["keymissing"] + stderr["keyinvalid"] + stderr["keyunrecognized"]

VersionMatches(channel, m) == m.Version.kind = "str" /\ channel.version = m.Version.s

\* C5: for a mod with an entry in better_info the url is optional's when that
\* channel exists with the mod's Version, else unofficial's when that channel
\* exists with the mod's Version, else main's; the update keys are not looked
\* at (no diagnostic about them, stat_guessed unchanged) and stat_better goes
\* up by exactly one.
C5_RemotePriority ==
  (Reported /\ mods[1].UniqueID \in DOMAIN better_info) =>
    LET m == mods[1]
        better == better_info[m.UniqueID]
        want == IF "optional" \in better.has /\ VersionMatches(better.optional, m)
                  THEN better.optional.url
                ELSE IF "unofficial" \in better.has /\ VersionMatches(better.unofficial, m)
                  THEN better.unofficial.url
                ELSE better.main.url
    IN /\ out[2].tmpl = "format_url"
       /\ PrintedUrl = want
       /\ stat_better = 1
       /\ stat_guessed = 0
       /\ KeyDiagnostics = 0

\* C5's case: both other channels exist, only unofficial has the mod's
\* Version, and its url was printed.
C5_Witness ==
  /\ Reported /\ mods[1].UniqueID \in DOMAIN better_info
  /\ LET better == better_info[mods[1].UniqueID]
     IN /\ better.has = Channels
        /\ ~VersionMatches(better.optional, mods[1])
        /\ VersionMatches(better.unofficial, mods[1])
        /\ PrintedUrl = better.unofficial.url

UpdateKeysOf(m) == IF Has(m, "UpdateKeys") THEN m.UpdateKeys ELSE <<>>

Colons(key) == Cardinality({i \in 1..Len(key) : key[i] = ":"})

\* key is "Nexus:<index>" with no ":" in the index.
IsNexusKey(key) == Colons(key) = 1 /\ Len(key) >= 2 /\ key[1] = "Nexus" /\ key[2] = ":"

NexusUrlOf(key) ==
  <<"https://www.nexusmods.com/stardewvalley/mods/">> \o SubSeq(key, 3, Len(key))

GuessedFrom(key) ==
  /\ out[2].tmpl = "format_url"
  /\ PrintedUrl = NexusUrlOf(key)
  /\ stat_guessed = 1
  /\ KeyDiagnostics = 0

NotGuessed(diag) ==
  /\ out[2].tmpl = "format_nourl"
  /\ stat_guessed = 0
  /\ KeyDiagnostics = 1
  /\ stderr[diag] = 1

\* C6 as the spec states it: a mod without an entry in better_info is resolved
\* from the first update key that contains a ":", the keys without one before
\* it passed over.  (A key with a second ":" is left open here.)
C6_FirstKeyWithColon ==
  (Reported /\ mods[1].UniqueID \notin DOMAIN better_info) =>
    LET valid == SelectSeq(UpdateKeysOf(mods[1]), HasColon)
    IN /\ stat_better = 0
       /\ IF valid = <<>> THEN out[2].tmpl = "format_nourl" /\ stat_guessed = 0
                               /\ KeyDiagnostics = 1
          ELSE IF IsNexusKey(valid[1]) THEN GuessedFrom(valid[1])
          ELSE IF Colons(valid[1]) > 1 THEN TRUE
          ELSE NotGuessed("keyunrecognized")

\* C6 amended: a mod without an entry in better_info is resolved from its first
\* update key, whatever it is: "Nexus:<index>" with exactly one ":" gives the
\* Nexus url and one more in stat_guessed; no key at all, a first key with no
\* ":" or more than one, or another site give no url, one diagnostic (missing,
\* invalid, unrecognized) and no change of the counters.
C6_FirstKey ==
  (Reported /\ mods[1].UniqueID \notin DOMAIN better_info) =>
    LET keys == UpdateKeysOf(mods[1])
    IN /\ stat_better = 0
       /\ IF keys = <<>> THEN NotGuessed("keymissing")
          ELSE IF Colons(keys[1]) # 1 THEN NotGuessed("keyinvalid")
          ELSE IF IsNexusKey(keys[1]) THEN GuessedFrom(keys[1])
          ELSE NotGuessed("keyunrecognized")

\* C6's case: no entry in better_info, the first key is "Nexus:1", and the
\* Nexus url was printed.
C6_Witness ==
  /\ Reported /\ mods[1].UniqueID \notin DOMAIN better_info
  /\ UpdateKeysOf(mods[1]) # <<>> /\ UpdateKeysOf(mods[1])[1] = NexusKey
  /\ PrintedUrl = <<"https://www.nexusmods.com/stardewvalley/mods/", "1">>
  /\ stat_guessed = 1

\* The entry {id, updateKeys?} the request holds for mod m.
BatchEntryFor(entry, m) ==
  LET keys == SelectSeq(UpdateKeysOf(m), HasColon)
  IN /\ entry.id = m.UniqueID
     /\ entry.hasKeys = (keys # <<>>)
     /\ entry.hasKeys => entry.updateKeys = keys

\* C7: at most one request is sent; none before the scan and the sort are
\* over; it holds one entry per mod of the sorted collection; no mod is
\* resolved or printed before get_better_info has returned; with the switch
\* off no request is sent and better_info is empty.
C7_SingleBatchedCall ==
  /\ Len(requests) <= 1
  /\ pc \in {"scan", "sort", "build"} => requests = <<>>
  /\ pc \in {"scan", "sort", "build", "request"} =>
       out = <<>> /\ idx = 0 /\ stat_better = 0 /\ stat_guessed = 0
  /\ pc \in {"write", "report", "done"} =>
       Len(requests) = (IF request_smapi THEN 1 ELSE 0)
  /\ requests # <<>> =>
       /\ request_smapi
       /\ stack = <<>>
       /\ \A i \in 1..Len(mods) : Has(mods[i], "Name")
       /\ Sorted(mods)
       /\ Len(requests[1]) = Len(mods)
       /\ \A i \in 1..Len(mods) : BatchEntryFor(requests[1][i], mods[i])
  /\ (~request_smapi /\ pc \in {"write", "report", "done"}) => DOMAIN better_info = {}

\* C7's case: a run over two mods that sent its one request and finished.
C7_Witness ==
  /\ pc = "done" /\ Len(mods) = 2
  /\ Len(requests) = 1 /\ Len(requests[1]) = 2
  /\ mods[1].Name # mods[2].Name

\* The entry the one iteration of SpecVersion read, and its "Version".
VersionRead == Top.left = 0
InputVersion == Top.file.info.Version

AllFour == {VersionFields[k] : k \in 1..4}

\* The str forms of the fields that are present and not the empty str.
PresentParts(version) ==
  LET ks == SelectSeq(<<1, 2, 3, 4>>,
                      LAMBDA k : VersionFields[k] \in version.has
                                 /\ version.f[k] # EmptyField)
  IN [i \in 1..Len(ks) |-> Str(version.f[ks[i]].n)]

Appended(version) ==
  /\ Len(mods) = 1
  /\ mods[1] = [Top.file.info EXCEPT !.Version = version]
  /\ stderr["parse"] = 0

Rejected == mods = <<>> /\ stderr["parse"] = 1

\* Sanitizing the record once more changes nothing.
Idempotent == \A i \in 1..Len(mods) : Sanitize(mods[i]) = [ok |-> TRUE, info |-> mods[i]]

\* C8 as the spec states it: an object with MajorVersion becomes the join of
\* the fields that are present and not empty, absent fields allowed; a str
\* stays as it is; sanitizing twice is sanitizing once.
C8_AbsentFieldsAllowed ==
  VersionRead =>
    /\ IF InputVersion.kind = "map" /\ "MajorVersion" \in InputVersion.has
       THEN Appended(StrVersion(Join(".", PresentParts(InputVersion))))
       ELSE InputVersion.kind = "str" => Appended(InputVersion)
    /\ Idempotent

\* C8 amended: an object with all four keys becomes the join, with ".", of
\* the str forms of the fields that are not the empty str; an object with
\* MajorVersion that lacks one of the other three keys, and a str that
\* contains "MajorVersion", make the manifest a parse error (the mod is
\* dropped); any other str, and an object without MajorVersion, stay as they
\* are; sanitizing a record that was appended changes nothing.
C8_Normalization ==
  VersionRead =>
    /\ IF InputVersion.kind = "map" /\ "MajorVersion" \in InputVersion.has
       THEN IF InputVersion.has = AllFour
            THEN Appended(StrVersion(Join(".", PresentParts(InputVersion))))
            ELSE Rejected
       ELSE IF InputVersion.kind = "str" /\ Contains(InputVersion.s, "MajorVersion")
            THEN Rejected
            ELSE Appended(InputVersion)
    /\ Idempotent

\* C8's case: {MajorVersion: 1, MinorVersion: 2, PatchVersion: 0, Build: ""}
\* was read and the mod holds "1.2.0".
C8_Witness ==
  /\ VersionRead
  /\ InputVersion = MapVersion(AllFour, <<IntField(1), IntField(2), IntField(0), EmptyField>>)
  /\ Len(mods) = 1
  /\ mods[1].Version = StrVersion(<<"1", ".", "2", ".", "0">>)

\* The scan is over and the run has reached line 145.
ScanOver == pc # "scan" /\ exc # "NotADirectoryError"

\* C9: a manifest without Name is a parse error of that mod alone: no record
\* without a Name is in the collection the sort gets, and the run is not
\* aborted by the sort key.
C9_NamelessDropped ==
  ScanOver => /\ \A i \in 1..Len(mods) : Has(mods[i], "Name")
              /\ ~(pc = "crashed" /\ exc = "KeyError")

\* scan() read an entry that holds a manifest.json.
ManifestStep ==
  /\ pc = "scan" /\ pc' = "scan"
  /\ Len(stack') = Len(stack)
  /\ stack'[Len(stack')].left = Top.left - 1
  /\ stack'[Len(stack')].file.manifest

\* A nested scan() returned to its caller.
ReturnStep == Len(stack) >= 2 /\ Len(stack') = Len(stack) - 1

\* The value scan() is about to return is TRUE exactly when the call appended
\* a mod, itself or through a nested call; and an outer call whose res is
\* TRUE has seen a mod appended.
ResIsAppended ==
  /\ stack # <<>> => (Top.res <=> Len(mods) > Top.base)
  /\ \A k \in 1..Len(stack) : stack[k].res => Len(mods) > stack[k].base

\* In the caller res becomes TRUE with a TRUE result of the nested call, and
\* the warning is printed exactly when that result is FALSE.
ReturnPropagates ==
  ReturnStep =>
    /\ stack'[Len(stack')].res = (stack[Len(stack) - 1].res \/ Top.res)
    /\ stderr'["nomods"] = stderr["nomods"] + (IF Top.res THEN 0 ELSE 1)

\* C10 as the spec states it: the result is TRUE iff the call appended a mod,
\* every entry that holds a descriptor counts as found, and the warning comes
\* exactly with a FALSE result of the nested call.
C10_DescriptorCountsAsFound ==
  /\ []ResIsAppended
  /\ [][ReturnPropagates]_vars
  /\ [][ManifestStep => stack'[Len(stack')].res]_vars

\* C10 amended: the result is TRUE iff the call appended a mod; an entry that
\* holds a descriptor counts as found exactly when the descriptor was parsed
\* and its record appended (one that fails to parse leaves res as it was), is
\* never recursed into and gets no "No mods found" warning; for a recursed
\* entry the warning comes exactly with a FALSE result of the nested call.
C10_ScanResult ==
  /\ []ResIsAppended
  /\ [][ReturnPropagates]_vars
  /\ [][ManifestStep =>
          /\ stack'[Len(stack')].res = (Top.res \/ Len(mods') = Len(mods) + 1)
          /\ Len(mods') = Len(mods) + (IF stderr'["parse"] = stderr["parse"] THEN 1 ELSE 0)
          /\ stderr'["nomods"] = stderr["nomods"]]_vars

\* C10's case: the nested call on an entry without a descriptor has returned
\* TRUE to the call on `Mods`, after a descriptor in it failed to parse and
\* another was appended.
C10_Witness ==
  /\ pc = "scan" /\ Len(stack) = 1
  /\ Top.file.isdir /\ ~Top.file.hidden /\ ~Top.file.manifest
  /\ Top.res /\ Len(mods) = 1
  /\ stderr["parse"] = 1 /\ stderr["nomods"] = 0

=============================================================================
